---- MODULE Spec2Model ----
(***************************************************************************)
(* A model of lib/darwin.js: the Darwin event emitter, its connect method, *)
(* the per-message decode pipeline built by the subscribe callback, and    *)
(* the two pure helpers replaceKeys and getMessage.                        *)
(*                                                                         *)
(* JSON values are tagged tuples:                                          *)
(*    <<"s", atoms>>   a string, as a sequence of text atoms               *)
(*    <<"o", pairs>>   an object, as the sequence of its <<key, value>>    *)
(*                     members in insertion order (a key is a sequence of  *)
(*                     text atoms)                                         *)
(*    <<"u">>          undefined                                           *)
(*    <<"d", k, sub>>  the domain object built by constructor k from sub   *)
(* A text atom is an indivisible piece of text ("ns3:", "Location", ...).  *)
(***************************************************************************)
EXTENDS Naturals, Sequences, FiniteSets

(***************************************************************************)
(* Bounds of the model.                                                    *)
(***************************************************************************)
MaxWork == 6

MaxRaised == 2

(***************************************************************************)
(* JSON values.                                                            *)
(***************************************************************************)
Str(atoms) == <<"s", atoms>>
Obj(pairs) == <<"o", pairs>>
Undef == <<"u">>
Key(name) == <<name>>

IsObj(v) == v[1] = "o"

HasKey(pairs, k) == \E i \in 1..Len(pairs) : pairs[i][1] = k

KeyIndex(pairs, k) == CHOOSE i \in 1..Len(pairs) : pairs[i][1] = k

\* v.k in JavaScript, for v other than undefined: a missing property, and any
\* property of a string, is undefined.
Prop(v, k) ==
  IF IsObj(v) /\ HasKey(v[2], k) THEN v[2][KeyIndex(v[2], k)][2] ELSE Undef

Keys(v) == [i \in 1..Len(v[2]) |-> v[2][i][1]]

(***************************************************************************)
(* JSON.stringify and JSON.parse over token sequences.  The tokens of a    *)
(* JSON text are the structural characters, the double quote, the          *)
(* backslash, and the text atoms of its strings.                           *)
(***************************************************************************)
DQ == "\""
BSL == "\\"

RECURSIVE Escape(_)
Escape(s) ==
  IF Len(s) = 0 THEN <<>>
  ELSE (IF Head(s) \in {DQ, BSL} THEN <<BSL, Head(s)>> ELSE <<Head(s)>>)
       \o Escape(Tail(s))

Quote(s) == <<DQ>> \o Escape(s) \o <<DQ>>

RECURSIVE stringify(_)
RECURSIVE StringifyMembers(_)
stringify(v) ==
  IF v[1] = "s" THEN Quote(v[2])
  ELSE <<"{">> \o StringifyMembers(v[2]) \o <<"}">>

StringifyMembers(pairs) ==
  IF Len(pairs) = 0 THEN <<>>
  ELSE Quote(pairs[1][1]) \o <<":">> \o stringify(pairs[1][2])
       \o (IF Len(pairs) > 1 THEN <<",">> \o StringifyMembers(Tail(pairs))
           ELSE <<>>)

\* A member parsed twice keeps its first position and takes the last value.
SetMember(pairs, k, v) ==
  IF HasKey(pairs, k)
  THEN [pairs EXCEPT ![KeyIndex(pairs, k)] = <<k, v>>]
  ELSE Append(pairs, <<k, v>>)

\* The backslashes right before token i of t.
BslRun(t, i) ==
  CHOOSE k \in 0..(i - 1) :
    /\ \A j \in (i - k)..(i - 1) : t[j] = BSL
    /\ k = i - 1 \/ t[i - k - 1] # BSL

IsClosingQuote(t, i) == t[i] = DQ /\ BslRun(t, i) % 2 = 0

RECURSIVE Unescape(_)
Unescape(s) ==
  IF Len(s) = 0 THEN <<>>
  ELSE IF Head(s) = BSL THEN <<s[2]>> \o Unescape(SubSeq(s, 3, Len(s)))
  ELSE <<Head(s)>> \o Unescape(Tail(s))

\* The tokens after an opening quote: <<atoms of the string, tokens left>>.
ParseString(t) ==
  LET close == CHOOSE i \in 1..Len(t) :
                 IsClosingQuote(t, i) /\ \A j \in 1..(i - 1) : ~IsClosingQuote(t, j)
  IN <<Unescape(SubSeq(t, 1, close - 1)), SubSeq(t, close + 1, Len(t))>>

RECURSIVE ParseValue(_)
RECURSIVE ParseMembers(_, _)
ParseValue(t) ==
  IF t[1] = DQ
  THEN LET r == ParseString(Tail(t)) IN <<Str(r[1]), r[2]>>
  ELSE ParseMembers(Tail(t), <<>>)

ParseMembers(t, acc) ==
  IF t[1] = "}" THEN <<Obj(acc), Tail(t)>>
  ELSE LET t1 == IF t[1] = "," THEN Tail(t) ELSE t
           k == ParseString(Tail(t1))
           v == ParseValue(Tail(k[2]))
       IN ParseMembers(v[2], SetMember(acc, k[1], v[1]))

parse(t) == ParseValue(t)[1]

(***************************************************************************)
(* replaceKeys: serialise, two global regular-expression replacements on   *)
(* the text, parse.                                                        *)
(***************************************************************************)
NsDigit == {"ns0:", "ns1:", "ns2:", "ns3:", "ns4:",
            "ns5:", "ns6:", "ns7:", "ns8:", "ns9:"}

\* A global replacement takes the matches from the left, none overlapping an
\* earlier one.
LocationAt(s, i) ==
  i + 3 <= Len(s) /\ SubSeq(s, i, i + 3) = <<DQ, "ns3:", "Location", DQ>>

PrefixAt(s, i) == i + 1 <= Len(s) /\ s[i] = DQ /\ s[i + 1] \in NsDigit

\* .replace(/"ns3:Location"/g, '"locations"')
RECURSIVE ReplaceLocation(_)
ReplaceLocation(s) ==
  IF \E i \in 1..Len(s) : LocationAt(s, i)
  THEN LET i == CHOOSE i \in 1..Len(s) :
                  LocationAt(s, i) /\ \A j \in 1..(i - 1) : ~LocationAt(s, j)
       IN SubSeq(s, 1, i - 1) \o <<DQ, "locations", DQ>>
          \o ReplaceLocation(SubSeq(s, i + 4, Len(s)))
  ELSE s

\* .replace(/"ns\d:/g, '"')
RECURSIVE StripPrefix(_)
StripPrefix(s) ==
  IF \E i \in 1..Len(s) : PrefixAt(s, i)
  THEN LET i == CHOOSE i \in 1..Len(s) :
                  PrefixAt(s, i) /\ \A j \in 1..(i - 1) : ~PrefixAt(s, j)
       IN SubSeq(s, 1, i - 1) \o <<DQ>> \o StripPrefix(SubSeq(s, i + 2, Len(s)))
  ELSE s

replaceKeys(jsonObj) == parse(StripPrefix(ReplaceLocation(stringify(jsonObj))))

(***************************************************************************)
(* The domain constructors of openraildata-common.  They are opaque: a     *)
(* constructor wraps the sub-structure it is given, and fails on a         *)
(* sub-structure that is no object (undefined, or a bare string).          *)
(***************************************************************************)
Return(name, payload) == <<"ok", name, payload>>
Throw(error) == <<"throw", error>>
Threw(result) == result[1] = "throw"

Rejects(kind, sub) == ~IsObj(sub)
NewDomain(kind, sub) == <<"d", kind, sub>>

Pport(messageJSON) == Prop(messageJSON, Key("Pport"))
uR(messageJSON) == Prop(Pport(messageJSON), Key("uR"))

\* RequestPayload with origin and source taken from each other's attribute.
RequestPayload_Swapped(messageJSON, name, kind, subKey) ==
  IF Pport(messageJSON) = Undef \/ uR(messageJSON) = Undef
  THEN Throw("TypeError")
  ELSE IF Rejects(kind, Prop(uR(messageJSON), subKey))
  THEN Throw("ConstructorError")
  ELSE Return(name, Obj(<<
         <<Key("id"), Prop(uR(messageJSON), Key("requestID"))>>,
         <<Key("ts"), Prop(Pport(messageJSON), Key("ts"))>>,
         <<Key(name), NewDomain(kind, Prop(uR(messageJSON), subKey))>>,
         <<Key("origin"), Prop(uR(messageJSON), Key("requestSource"))>>,
         <<Key("source"), Prop(uR(messageJSON), Key("updateOrigin"))>> >>))

\* The payload with a request id and source: schedule, association, trainOrder.
\* Reading a property of undefined throws a TypeError before any constructor
\* runs.
RequestPayload(messageJSON, name, kind, subKey) ==
  IF Pport(messageJSON) = Undef \/ uR(messageJSON) = Undef
  THEN Throw("TypeError")
  ELSE IF Rejects(kind, Prop(uR(messageJSON), subKey))
  THEN Throw("ConstructorError")
  ELSE Return(name, Obj(<<
         <<Key("id"), Prop(uR(messageJSON), Key("requestID"))>>,
         <<Key("ts"), Prop(Pport(messageJSON), Key("ts"))>>,
         <<Key(name), NewDomain(kind, Prop(uR(messageJSON), subKey))>>,
         <<Key("origin"), Prop(uR(messageJSON), Key("updateOrigin"))>>,
         <<Key("source"), Prop(uR(messageJSON), Key("requestSource"))>> >>))

\* The payload without them: trainStatus, stationMessage.
StatusPayload(messageJSON, name, kind, subKey) ==
  IF Pport(messageJSON) = Undef \/ uR(messageJSON) = Undef
  THEN Throw("TypeError")
  ELSE IF Rejects(kind, Prop(uR(messageJSON), subKey))
  THEN Throw("ConstructorError")
  ELSE Return(name, Obj(<<
         <<Key("ts"), Prop(Pport(messageJSON), Key("ts"))>>,
         <<Key(name), NewDomain(kind, Prop(uR(messageJSON), subKey))>>,
         <<Key("origin"), Prop(uR(messageJSON), Key("updateOrigin"))>> >>))

\* getMessage with the association and trainOrder branches under each other's
\* type.
getMessage_Crossed(type, messageJSON) ==
  IF type = "TRAINSTATUS,"
  THEN StatusPayload(messageJSON, "trainStatus", "TrainStatus", Key("TS"))
  ELSE IF type = "SCHEDULE,"
  THEN RequestPayload(messageJSON, "schedule", "Schedule", Key("schedule"))
  ELSE IF type = "TRAINORDER,"
  THEN RequestPayload(messageJSON, "association", "Association",
                      Key("association"))
  ELSE IF type = "ASSOCIATION,"
  THEN RequestPayload(messageJSON, "trainOrder", "TrainOrder",
                      Key("trainOrder"))
  ELSE IF type = "STATIONMESSAGE,"
  THEN StatusPayload(messageJSON, "stationMessage", "StationMessage",
                     Key("OW"))
  ELSE Return("unhandledMessage", messageJSON)

getMessage(type, messageJSON) ==
  IF type = "TRAINSTATUS,"
  THEN StatusPayload(messageJSON, "trainStatus", "TrainStatus", Key("TS"))
  ELSE IF type = "SCHEDULE,"
  THEN RequestPayload(messageJSON, "schedule", "Schedule", Key("schedule"))
  ELSE IF type = "ASSOCIATION,"
  THEN RequestPayload(messageJSON, "association", "Association",
                      Key("association"))
  ELSE IF type = "TRAINORDER,"
  THEN RequestPayload(messageJSON, "trainOrder", "TrainOrder",
                      Key("trainOrder"))
  ELSE IF type = "STATIONMESSAGE,"
  THEN StatusPayload(messageJSON, "stationMessage", "StationMessage",
                     Key("OW"))
  ELSE Return("unhandledMessage", messageJSON)

(***************************************************************************)
(* The decoded text of a message body.  A chunk handed to a data callback  *)
(* is a piece of text; the two fragments of a Darwin document are          *)
(*   XmlOpen  the XML declaration, the opening Pport tag with its ts       *)
(*            attribute and the opening uR tag with its attributes         *)
(*   XmlBody  the schedule element, holding an ns3:Location element, and   *)
(*            the closing uR and Pport tags                                *)
(***************************************************************************)
XmlOpen == "<?xml?><Pport ts><uR updateOrigin requestID requestSource>"
XmlBody == "<schedule rid><ns3:Location tpl/></schedule></uR></Pport>"

Chunks == {<<XmlOpen>>, <<XmlBody>>}

\* buffer.join('')
RECURSIVE Join(_)
Join(buffer) == IF Len(buffer) = 0 THEN <<>> ELSE Head(buffer) \o Join(Tail(buffer))

(***************************************************************************)
(* xml2json.toJson(text, {object: true, ...}) on the texts the fragments   *)
(* form.  The parser is fed without an end-of-document mark, so the empty  *)
(* text gives the empty object and an unclosed document the object built   *)
(* so far; a text that does not begin a document, or goes on after its     *)
(* root element closed, makes toJson throw.                                *)
(***************************************************************************)
XmlError == <<"x">>

RequestAttrs ==
  << <<Key("updateOrigin"), Str(<<"CIS">>)>>,
     <<Key("requestID"), Str(<<"req7">>)>>,
     <<Key("requestSource"), Str(<<"at21">>)>> >>

ScheduleJSON ==
  Obj(<< <<Key("rid"), Str(<<"2017">>)>>,
         << <<"ns3:", "Location">>, Obj(<< <<Key("tpl"), Str(<<"EUSTON">>)>> >>) >> >>)

OpenJSON ==
  Obj(<< <<Key("Pport"),
           Obj(<< <<Key("ts"), Str(<<"10:40">>)>>,
                  <<Key("uR"), Obj(RequestAttrs)>> >>)>> >>)

FullJSON ==
  Obj(<< <<Key("Pport"),
           Obj(<< <<Key("ts"), Str(<<"10:40">>)>>,
                  <<Key("uR"), Obj(Append(RequestAttrs,
                                          <<Key("schedule"), ScheduleJSON>>))>> >>)>> >>)

toJson(messageXML) ==
  IF messageXML = <<>> THEN Obj(<<>>)
  ELSE IF messageXML = <<XmlOpen>> THEN OpenJSON
  ELSE IF messageXML = <<XmlOpen, XmlBody>> THEN FullJSON
  ELSE XmlError

(***************************************************************************)
(* The state.                                                              *)
(*   channel  this._channel: 0 for null, else the channel connect made last*)
(*   subs     the channels whose subscribe callback is registered          *)
(*   msgs     the messages the subscribe callback was given, in order      *)
(*   pipes    the decode pipelines the readable listeners built, in order: *)
(*            msg     the message it was built for                         *)
(*            buffer  the chunks its data callbacks pushed                 *)
(*            st      "open"; "errored" after its error callback; "ended"  *)
(*                    after its end callback returned; "threw" after its   *)
(*                    end callback was left by an exception                *)
(*            xml     the text its end callback handed to toJson           *)
(*            json    messageJSON of its end callback                      *)
(*            out     the events it published on the Darwin emitter        *)
(*   crashed  an exception escaped a callback: nothing caught it           *)
(*   raised   what the channels handed to the lifecycle listeners and, as  *)
(*            an error, to the subscribe callback, in order: the channel,  *)
(*            the signal and its arguments                                 *)
(*   surface  the events those listeners published on the Darwin emitter   *)
(*   torn     the messages 1..torn lost their transport while in flight    *)
(*   fn       the call of the pure helpers under check (FnSpec only)       *)
(***************************************************************************)
VARIABLES channel, subs, msgs, pipes, crashed, raised, surface, torn, fn

vars == <<channel, subs, msgs, pipes, crashed, raised, surface, torn, fn>>

MsgTypes == {"SCHEDULE,", "TRAINSTATUS,", "SCHEDULE"}

Headers(m, type) == [FilterHeaderLevel |-> type, messageId |-> m]

Event(name, args) == [name |-> name, args |-> args]

NoCall == [pc |-> "off"]

\* The size of a run: the channels made, the messages delivered, the
\* pipelines built, the chunks decoded, the signals raised and the messages
\* cut off.
RECURSIVE ChunksIn(_)
ChunksIn(ps) == IF Len(ps) = 0 THEN 0 ELSE Len(Head(ps).buffer) + ChunksIn(Tail(ps))

Work == channel + Len(msgs) + Len(pipes) + ChunksIn(pipes) + Len(raised) + torn

Init ==
  /\ channel = 0
  /\ subs = {}
  /\ msgs = <<>>
  /\ pipes = <<>>
  /\ crashed = FALSE
  /\ raised = <<>>
  /\ surface = <<>>
  /\ torn = 0
  /\ fn = NoCall

\* connect(queue): a new channel, its lifecycle listeners and its subscription.
Connect ==
  /\ ~crashed
  /\ Work < MaxWork
  /\ channel' = channel + 1
  /\ subs' = subs \cup {channel + 1}
  /\ UNCHANGED <<msgs, pipes, crashed, raised, surface, torn, fn>>

\* What a channel hands to a listener of the component.
Raise(c, sig, args) == [ch |-> c, sig |-> sig, args |-> args]

\* The error a channel raises: each raise has an error of its own.
NewError(kind) == <<kind, Len(raised) + 1>>

Server == "server1"

\* this._channel.on('idle')
OnIdle(c) ==
  /\ ~crashed
  /\ c \in subs
  /\ Work < MaxWork
  /\ Len(raised) < MaxRaised
  /\ raised' = Append(raised, Raise(c, "idle", <<>>))
  /\ surface' = Append(surface, Event("idle", <<>>))
  /\ UNCHANGED <<channel, subs, msgs, pipes, crashed, torn, fn>>

\* The error listener of the channel publishing the error without the server.
OnChannelError_NoServer(c, err, server) ==
  /\ ~crashed
  /\ c \in subs
  /\ Work < MaxWork
  /\ Len(raised) < MaxRaised
  /\ raised' = Append(raised, Raise(c, "error", <<err, server>>))
  /\ surface' = Append(surface, Event("error", <<err>>))
  /\ UNCHANGED <<channel, subs, msgs, pipes, crashed, torn, fn>>

\* this._channel.on('error')
OnChannelError(c, err, server) ==
  /\ ~crashed
  /\ c \in subs
  /\ Work < MaxWork
  /\ Len(raised) < MaxRaised
  /\ raised' = Append(raised, Raise(c, "error", <<err, server>>))
  /\ surface' = Append(surface, Event("error", <<err, server>>))
  /\ UNCHANGED <<channel, subs, msgs, pipes, crashed, torn, fn>>

\* this._channel.on('connecting')
OnConnecting(c) ==
  /\ ~crashed
  /\ c \in subs
  /\ Work < MaxWork
  /\ Len(raised) < MaxRaised
  /\ raised' = Append(raised, Raise(c, "connecting", <<>>))
  /\ surface' = Append(surface, Event("connecting", <<>>))
  /\ UNCHANGED <<channel, subs, msgs, pipes, crashed, torn, fn>>

\* this._channel.on('connect')
OnConnect(c) ==
  /\ ~crashed
  /\ c \in subs
  /\ Work < MaxWork
  /\ Len(raised) < MaxRaised
  /\ raised' = Append(raised, Raise(c, "connect", <<>>))
  /\ surface' = Append(surface, Event("connect", <<>>))
  /\ UNCHANGED <<channel, subs, msgs, pipes, crashed, torn, fn>>

\* The subscribe callback without its return: after publishing the error it
\* goes on to read the headers of a message that is undefined.
SubscribeError_FallThrough(c, err) ==
  /\ ~crashed
  /\ c \in subs
  /\ Work < MaxWork
  /\ Len(raised) < MaxRaised
  /\ raised' = Append(raised, Raise(c, "subscribe", <<err>>))
  /\ surface' = Append(surface, Event("error", <<err>>))
  /\ crashed' = TRUE
  /\ UNCHANGED <<channel, subs, msgs, pipes, torn, fn>>

\* The subscribe callback is given an error: it publishes it and returns.
SubscribeError(c, err) ==
  /\ ~crashed
  /\ c \in subs
  /\ Work < MaxWork
  /\ Len(raised) < MaxRaised
  /\ raised' = Append(raised, Raise(c, "subscribe", <<err>>))
  /\ surface' = Append(surface, Event("error", <<err>>))
  /\ UNCHANGED <<channel, subs, msgs, pipes, crashed, torn, fn>>

\* The transport is closed: the messages in flight get no further readable
\* signal and their gunzip streams no further input, so no data and no end;
\* a gunzip stream whose input was cut short can still raise an error.  The
\* component has no listener for it.
CloseTransport ==
  /\ ~crashed
  /\ torn < Len(msgs)
  /\ Work + (Len(msgs) - torn) <= MaxWork
  /\ torn' = Len(msgs)
  /\ UNCHANGED <<channel, subs, msgs, pipes, crashed, raised, surface, fn>>

\* The subscribe callback is given a message: it reads the type header and
\* registers a readable listener on the message.
Deliver(type) ==
  /\ ~crashed
  /\ subs # {}
  /\ Work < MaxWork
  /\ msgs' = Append(msgs, [headers |-> Headers(Len(msgs) + 1, type)])
  /\ UNCHANGED <<channel, subs, pipes, crashed, raised, surface, torn, fn>>

NewPipe(m) ==
  [msg |-> m, buffer |-> <<>>, st |-> "open", xml |-> <<>>, json |-> Undef,
   out |-> <<>>]

\* The message signals readable: a new buffer and a new gunzip stream with
\* its three listeners, and the message piped into the stream.
OnReadable(m) ==
  /\ ~crashed
  /\ m > torn
  /\ Work < MaxWork
  /\ pipes' = Append(pipes, NewPipe(m))
  /\ UNCHANGED <<channel, subs, msgs, crashed, raised, surface, torn, fn>>

\* The data listener pushing to one buffer that all pipelines share.
OnData_Shared(p, data) ==
  /\ ~crashed
  /\ pipes[p].st = "open"
  /\ pipes[p].msg > torn
  /\ Work < MaxWork
  /\ pipes' = [q \in 1..Len(pipes) |->
                IF pipes[q].st = "open"
                THEN [pipes[q] EXCEPT !.buffer = Append(@, data)]
                ELSE pipes[q]]
  /\ UNCHANGED <<channel, subs, msgs, crashed, raised, surface, torn, fn>>

\* The data listener putting the chunk at the front of the buffer.
OnData_Unshift(p, data) ==
  /\ ~crashed
  /\ pipes[p].st = "open"
  /\ pipes[p].msg > torn
  /\ Work < MaxWork
  /\ pipes' = [pipes EXCEPT ![p].buffer = <<data>> \o @]
  /\ UNCHANGED <<channel, subs, msgs, crashed, raised, surface, torn, fn>>

\* messageStream.on('data')
OnData(p, data) ==
  /\ ~crashed
  /\ pipes[p].st = "open"
  /\ pipes[p].msg > torn
  /\ Work < MaxWork
  /\ pipes' = [pipes EXCEPT ![p].buffer = Append(@, data)]
  /\ UNCHANGED <<channel, subs, msgs, crashed, raised, surface, torn, fn>>

\* The error listener publishing what the chunks decoded so far give.
OnError_Salvage(p) ==
  /\ ~crashed
  /\ pipes[p].st = "open"
  /\ LET type == msgs[pipes[p].msg].headers.FilterHeaderLevel
         converted == toJson(Join(pipes[p].buffer))
         result == getMessage(type, replaceKeys(converted))
     IN pipes' = [pipes EXCEPT
          ![p].st = "errored",
          ![p].out = IF Len(pipes[p].buffer) = 0 THEN @
                     ELSE IF converted = XmlError \/ Threw(result)
                     THEN Append(@, Event("error",
                                          <<"ZlibError", msgs[pipes[p].msg].headers>>))
                     ELSE Append(@, Event(result[2], <<result[3]>>))]
  /\ UNCHANGED <<channel, subs, msgs, crashed, raised, surface, torn, fn>>

\* The error listener without its test of the buffer.
OnError_Unguarded(p) ==
  /\ ~crashed
  /\ pipes[p].st = "open"
  /\ pipes' = [pipes EXCEPT
       ![p].st = "errored",
       ![p].out = Append(@, Event("error",
                                  <<"ZlibError", msgs[pipes[p].msg].headers>>))]
  /\ UNCHANGED <<channel, subs, msgs, crashed, raised, surface, torn, fn>>

\* messageStream.on('error')
OnError(p) ==
  /\ ~crashed
  /\ pipes[p].st = "open"
  /\ pipes' = [pipes EXCEPT
       ![p].st = "errored",
       ![p].out = IF Len(pipes[p].buffer) > 0
                  THEN Append(@, Event("error",
                                       <<"ZlibError", msgs[pipes[p].msg].headers>>))
                  ELSE @]
  /\ UNCHANGED <<channel, subs, msgs, crashed, raised, surface, torn, fn>>

\* What the try block of the end callback publishes: the event getMessage
\* returned, and messageErr when getMessage, or a listener of that event,
\* threw.
Published(type, messageJSON, listener) ==
  LET result == getMessage(type, messageJSON)
      messageErr(error) == Event("messageErr", <<error, stringify(messageJSON)>>)
  IN IF Threw(result) THEN <<messageErr(result[2])>>
     ELSE IF listener = "throws"
     THEN <<Event(result[2], <<result[3]>>), messageErr("ListenerError")>>
     ELSE <<Event(result[2], <<result[3]>>)>>

\* messageStream.on('end').  toJson and replaceKeys run before the try block.
OnEnd(p, listener) ==
  /\ ~crashed
  /\ pipes[p].st = "open"
  /\ pipes[p].msg > torn
  /\ LET type == msgs[pipes[p].msg].headers.FilterHeaderLevel
         messageXML == Join(pipes[p].buffer)
         converted == toJson(messageXML)
         messageJSON == replaceKeys(converted)
     IN IF converted = XmlError
        THEN /\ listener = "returns"
             /\ pipes' = [pipes EXCEPT ![p].st = "threw", ![p].xml = messageXML]
             /\ crashed' = TRUE
        ELSE /\ listener = "throws" => ~Threw(getMessage(type, messageJSON))
             /\ pipes' = [pipes EXCEPT
                  ![p].st = "ended",
                  ![p].xml = messageXML,
                  ![p].json = messageJSON,
                  ![p].out = @ \o Published(type, messageJSON, listener)]
             /\ crashed' = crashed
  /\ UNCHANGED <<channel, subs, msgs, raised, surface, torn, fn>>

Next ==
  \/ Connect
  \/ \E type \in MsgTypes : Deliver(type)
  \/ \E m \in 1..Len(msgs) : OnReadable(m)
  \/ \E p \in 1..Len(pipes), data \in Chunks : OnData(p, data)
  \/ \E p \in 1..Len(pipes) : OnError(p)
  \/ \E p \in 1..Len(pipes), listener \in {"returns", "throws"} : OnEnd(p, listener)
  \/ \E c \in subs : OnIdle(c)
  \/ \E c \in subs : OnChannelError(c, NewError("TransportError"), Server)
  \/ \E c \in subs : OnConnecting(c)
  \/ \E c \in subs : OnConnect(c)
  \/ \E c \in subs : SubscribeError(c, NewError("SubscribeError"))
  \/ CloseTransport

Spec == Init /\ [][Next]_vars

(***************************************************************************)
(* The pure helpers on their own: a type header and a hand-built tree are  *)
(* drawn, replaceKeys is applied to the tree and getMessage to the header  *)
(* and the transformed tree.                                               *)
(***************************************************************************)
FnTypes == {"TRAINSTATUS,", "SCHEDULE,", "ASSOCIATION,", "TRAINORDER,",
            "STATIONMESSAGE,", "TRAINSTATUS", "SCHEDULE", "ASSOCIATION",
            "TRAINORDER", "STATIONMESSAGE", "schedule,", "DELETE,"}

Leaf(name, text) == Obj(<< <<Key(name), Str(<<text>>)>> >>)

\* A record with the sub-structure of each of the five message types.
AllJSON ==
  Obj(<< <<Key("Pport"),
           Obj(<< <<Key("ts"), Str(<<"10:40">>)>>,
                  <<Key("uR"),
                    Obj(RequestAttrs \o
                        << <<Key("TS"), Leaf("rid", "ts1")>>,
                           <<Key("schedule"), Leaf("rid", "sc2")>>,
                           <<Key("association"), Leaf("tiploc", "as3")>>,
                           <<Key("trainOrder"), Leaf("tiploc", "to4")>>,
                           <<Key("OW"), Leaf("id", "ow5")>> >>)>> >>)>> >>)

FnTrees ==
  << Obj(<<>>),
     OpenJSON,
     FullJSON,
     AllJSON,
     \* Pport is a string
     Obj(<< <<Key("Pport"), Str(<<"ns1:", "Pport">>)>> >>),
     \* a string value that is the Location marker itself
     Obj(<< <<Key("Pport"), Obj(<< <<Key("ts"), Str(<<"ns3:", "Location">>)>>,
                                   <<Key("uR"), Leaf("schedule", "x")>> >>)>> >>),
     \* a string value that quotes the Location marker
     Obj(<< <<Key("note"), Str(<<"see ", DQ, "ns3:", "Location", DQ>>)>> >>),
     \* a string value that begins like a prefixed key
     Obj(<< << <<"ns5:", "OR">>, Obj(<< <<Key("tpl"), Str(<<"ns2:", "x">>)>> >>) >> >>),
     \* prefixed keys at three depths
     Obj(<< << <<"ns2:", "a">>,
               Obj(<< << <<"ns3:", "Location">>,
                         Obj(<< << <<"ns4:", "b">>, Str(<<"v">>)>> >>) >> >>) >>,
            <<Key("z"), Str(<<BSL, "v">>)>> >>) >>

FnInit ==
  /\ channel = 0
  /\ subs = {}
  /\ msgs = <<>>
  /\ pipes = <<>>
  /\ crashed = FALSE
  /\ raised = <<>>
  /\ surface = <<>>
  /\ torn = 0
  /\ \E type \in FnTypes, i \in 1..Len(FnTrees) :
       fn = [pc |-> "drawn", type |-> type, raw |-> FnTrees[i], json |-> Undef,
             result |-> Undef]

FnTransform ==
  /\ fn.pc = "drawn"
  /\ fn' = [fn EXCEPT !.pc = "transformed", !.json = replaceKeys(fn.raw)]
  /\ UNCHANGED <<channel, subs, msgs, pipes, crashed, raised, surface, torn>>

\* getMessage taking Pport out of the record it was given.
FnClassify_Mutating ==
  /\ fn.pc = "transformed"
  /\ fn' = [fn EXCEPT !.pc = "classified", !.result = getMessage(fn.type, fn.json),
                      !.json = IF IsObj(fn.json) /\ HasKey(fn.json[2], Key("Pport")) THEN Obj(<<>>) ELSE @]
  /\ UNCHANGED <<channel, subs, msgs, pipes, crashed, raised, surface, torn>>

FnClassify ==
  /\ fn.pc = "transformed"
  /\ fn' = [fn EXCEPT !.pc = "classified", !.result = getMessage(fn.type, fn.json)]
  /\ UNCHANGED <<channel, subs, msgs, pipes, crashed, raised, surface, torn>>

FnNext == FnTransform \/ FnClassify

FnSpec == FnInit /\ [][FnNext]_vars

(***************************************************************************)
(* The claims.                                                             *)
(***************************************************************************)
Pipes == 1..Len(pipes)

TypeOf(p) == msgs[pipes[p].msg].headers.FilterHeaderLevel

PipesOf(m) == {p \in Pipes : pipes[p].msg = m}

\* The events published for message m, each as <<pipeline, place in its out>>.
EventsOf(m) == UNION {{<<p, i>> : i \in 1..Len(pipes[p].out)} : p \in PipesOf(m)}

EndRan(p) == pipes[p].st \in {"ended", "threw"}

\* C1: once every decode stream of a message has finished, exactly one event
\* was published for the message, a TypedEvent or an error notification, or
\* none when no stream decoded any data; at no time more than one.
C1_ExactlyOneEvent ==
  \A m \in 1..Len(msgs) :
    /\ Cardinality(EventsOf(m)) <= 1
    /\ (PipesOf(m) # {} /\ \A p \in PipesOf(m) : pipes[p].st # "open")
         => \/ Cardinality(EventsOf(m)) = 1
            \/ /\ Cardinality(EventsOf(m)) = 0
               /\ \A p \in PipesOf(m) : Len(pipes[p].buffer) = 0

\* C2: a decode stream that ended with no chunk in its buffer published
\* nothing, whatever the type header.
C2_EmptyEndSilent ==
  \A p \in Pipes :
    EndRan(p) /\ Len(pipes[p].buffer) = 0 => Len(pipes[p].out) = 0

\* C3: a decode stream that raised an error published nothing if its buffer
\* was empty, and otherwise exactly one error event, carrying the error and
\* the headers of its own message, and no TypedEvent.
C3_DecodeError ==
  \A p \in Pipes :
    pipes[p].st = "errored" =>
      IF Len(pipes[p].buffer) = 0
      THEN Len(pipes[p].out) = 0
      ELSE /\ Len(pipes[p].out) = 1
           /\ pipes[p].out[1].name = "error"
           /\ pipes[p].out[1].args[1] = "ZlibError"
           /\ pipes[p].out[1].args[2] = msgs[pipes[p].msg].headers
           /\ pipes[p].out[1].args[2].messageId = pipes[p].msg

C3_Witness ==
  \E p, q \in Pipes :
    /\ pipes[p].st = "errored" /\ Len(pipes[p].buffer) = 0
    /\ pipes[q].st = "errored" /\ Len(pipes[q].buffer) > 0
    /\ Len(pipes[q].out) = 1

\* C4: every failure of a step after decoding (XML conversion and key
\* transform, classification, domain construction) is caught by the end
\* callback and reported as exactly one messageErr event carrying the error
\* and the serialised transformed record; none leaves the callback uncaught.
PostDecodeFailed(p) ==
  \/ toJson(pipes[p].xml) = XmlError
  \/ Threw(getMessage(TypeOf(p), pipes[p].json))

C4_FailuresReported ==
  \A p \in Pipes :
    EndRan(p) /\ PostDecodeFailed(p) =>
      /\ pipes[p].st = "ended"
      /\ Len(pipes[p].out) = 1
      /\ pipes[p].out[1].name = "messageErr"
      /\ pipes[p].out[1].args[2] = stringify(pipes[p].json)

\* C5: a step in which the handling of a message fails (a decode error,
\* published or suppressed, or a failure of a step after decoding) leaves the
\* channel, the registered subscriptions, the delivered messages and every
\* other pipeline as they were and the process alive; and every pipeline
\* that ended with the whole document of a SCHEDULE message published it as
\* a schedule event.
DecodeFailed(p) ==
  \/ pipes[p].st = "errored"
  \/ pipes[p].st = "threw"
  \/ /\ pipes[p].st = "ended"
     /\ Len(pipes[p].out) > 0
     /\ pipes[p].out[1].name = "messageErr"

FailureStep(p) == pipes[p].st = "open" /\ DecodeFailed(p)'

WellFormed(p) ==
  /\ pipes[p].st = "ended"
  /\ pipes[p].xml = <<XmlOpen, XmlBody>>
  /\ TypeOf(p) = "SCHEDULE,"

C5_FailureIsolated ==
  [][/\ \A p \in Pipes :
          FailureStep(p) =>
            /\ channel' = channel
            /\ subs' = subs
            /\ msgs' = msgs
            /\ crashed' = crashed
            /\ Len(pipes') = Len(pipes)
            /\ \A q \in Pipes \ {p} : pipes'[q] = pipes[q]
     /\ \A p \in Pipes :
          WellFormed(p) => Len(pipes[p].out) >= 1 /\ pipes[p].out[1].name = "schedule"]_vars

\* C6: getMessage maps the five type tokens of the table, written without
\* the trailing comma of the header or with it, to the event of the same
\* name with exactly the listed payload fields, and every other token to
\* unhandledMessage with the record itself.
Trimmed(type) ==
  CASE type = "TRAINSTATUS," -> "TRAINSTATUS"
    [] type = "SCHEDULE," -> "SCHEDULE"
    [] type = "ASSOCIATION," -> "ASSOCIATION"
    [] type = "TRAINORDER," -> "TRAINORDER"
    [] type = "STATIONMESSAGE," -> "STATIONMESSAGE"
    [] OTHER -> type

Tokens == {"TRAINSTATUS", "SCHEDULE", "ASSOCIATION", "TRAINORDER", "STATIONMESSAGE"}

Row(token) ==
  CASE token = "TRAINSTATUS" ->
         [name |-> "trainStatus", kind |-> "TrainStatus", sub |-> "TS", ids |-> FALSE]
    [] token = "SCHEDULE" ->
         [name |-> "schedule", kind |-> "Schedule", sub |-> "schedule", ids |-> TRUE]
    [] token = "ASSOCIATION" ->
         [name |-> "association", kind |-> "Association", sub |-> "association",
          ids |-> TRUE]
    [] token = "TRAINORDER" ->
         [name |-> "trainOrder", kind |-> "TrainOrder", sub |-> "trainOrder",
          ids |-> TRUE]
    [] token = "STATIONMESSAGE" ->
         [name |-> "stationMessage", kind |-> "StationMessage", sub |-> "OW",
          ids |-> FALSE]

\* result is the event of table row: its name, exactly its fields, each
\* field from its place in the record.
AsListed(result, record, row) ==
  /\ result[1] = "ok"
  /\ result[2] = row.name
  /\ Keys(result[3]) =
       (IF row.ids
        THEN <<Key("id"), Key("ts"), Key(row.name), Key("origin"), Key("source")>>
        ELSE <<Key("ts"), Key(row.name), Key("origin")>>)
  /\ Prop(result[3], Key("ts")) = Prop(Pport(record), Key("ts"))
  /\ Prop(result[3], Key(row.name)) =
       NewDomain(row.kind, Prop(uR(record), Key(row.sub)))
  /\ Prop(result[3], Key("origin")) = Prop(uR(record), Key("updateOrigin"))
  /\ row.ids => /\ Prop(result[3], Key("id")) = Prop(uR(record), Key("requestID"))
                /\ Prop(result[3], Key("source")) =
                     Prop(uR(record), Key("requestSource"))

MinimallyValid(record, row) == IsObj(Prop(uR(record), Key(row.sub)))

C6_NormalizedTokens ==
  fn.pc = "classified" =>
    IF Trimmed(fn.type) \in Tokens
    THEN MinimallyValid(fn.json, Row(Trimmed(fn.type)))
           => AsListed(fn.result, fn.json, Row(Trimmed(fn.type)))
    ELSE fn.result = Return("unhandledMessage", fn.json)

\* C6 as amended: the five tokens are matched with their trailing comma only;
\* every other header value, the bare tokens among them, gives
\* unhandledMessage with the record itself.
C6_LiteralTokens ==
  fn.pc = "classified" =>
    IF fn.type \in {"TRAINSTATUS,", "SCHEDULE,", "ASSOCIATION,", "TRAINORDER,",
                    "STATIONMESSAGE,"}
    THEN MinimallyValid(fn.json, Row(Trimmed(fn.type)))
           => AsListed(fn.result, fn.json, Row(Trimmed(fn.type)))
    ELSE fn.result = Return("unhandledMessage", fn.json)

C6_Witness ==
  /\ fn.pc = "classified"
  /\ fn.type = "TRAINORDER,"
  /\ fn.result[2] = "trainOrder"
  /\ Prop(fn.result[3], Key("trainOrder")) = NewDomain("TrainOrder", Leaf("tiploc", "to4"))

\* C7: a schedule event is published for every SCHEDULE message that ended
\* with a record holding a schedule sub-structure, and the payload of every
\* published schedule event has id, ts, origin and source equal to
\* Pport.uR.requestID, Pport.ts, Pport.uR.updateOrigin and
\* Pport.uR.requestSource of the record, and as schedule the Schedule
\* constructor's product of Pport.uR.schedule.
C7_SchedulePayload ==
  \A p \in Pipes :
    pipes[p].st = "ended" =>
      /\ (TypeOf(p) = "SCHEDULE," /\ IsObj(Prop(uR(pipes[p].json), Key("schedule"))))
           => Len(pipes[p].out) >= 1 /\ pipes[p].out[1].name = "schedule"
      /\ \A i \in 1..Len(pipes[p].out) :
           pipes[p].out[i].name = "schedule" =>
             LET payload == pipes[p].out[i].args[1]
                 record == pipes[p].json
             IN /\ Len(pipes[p].out[i].args) = 1
                /\ Prop(payload, Key("id")) = Prop(uR(record), Key("requestID"))
                /\ Prop(payload, Key("ts")) = Prop(Pport(record), Key("ts"))
                /\ Prop(payload, Key("origin")) = Prop(uR(record), Key("updateOrigin"))
                /\ Prop(payload, Key("source")) = Prop(uR(record), Key("requestSource"))
                /\ Prop(payload, Key("schedule")) =
                     NewDomain("Schedule", Prop(uR(record), Key("schedule")))

C7_Witness ==
  \E p \in Pipes :
    /\ pipes[p].st = "ended"
    /\ Len(pipes[p].out) = 1
    /\ pipes[p].out[1].name = "schedule"
    /\ Prop(pipes[p].out[1].args[1], Key("id")) = Str(<<"req7">>)
    /\ Prop(pipes[p].out[1].args[1], Key("source")) = Str(<<"at21">>)

\* C8: replaceKeys renames every key that is the ns3:Location marker to
\* locations and strips the numbered prefix of every other key, at every
\* depth, and leaves every value, the nesting and the order as they were.
RenameKey(k) ==
  IF k = <<"ns3:", "Location">> THEN Key("locations")
  ELSE IF Len(k) > 0 /\ Head(k) \in NsDigit THEN Tail(k)
  ELSE k

RECURSIVE RenameTree(_)
RenameTree(v) ==
  IF IsObj(v)
  THEN Obj([i \in 1..Len(v[2]) |-> <<RenameKey(v[2][i][1]), RenameTree(v[2][i][2])>>])
  ELSE v

C8_KeysOnly == fn.pc # "drawn" => fn.json = RenameTree(fn.raw)


\* The signal a step hands to a listener, when it hands one.
Raises == Len(raised') = Len(raised) + 1

Raised == raised'[Len(raised')]

LifecycleSignals == {"idle", "connecting", "connect", "error"}

\* C11: every lifecycle signal a channel raises (idle, connecting, connect,
\* error) is published exactly once, under its own name and in the order
\* raised, error with the error and the server it was raised with; the step
\* delivers no message, builds and changes no decode pipeline, and so
\* publishes no TypedEvent and no messageErr.
C11_LifecycleForwarded ==
  [][/\ Len(surface) = Len(raised)
     /\ Len(surface') = Len(raised')
     /\ (Raises /\ Raised.sig \in LifecycleSignals) =>
          /\ surface' = Append(surface, Event(Raised.sig, Raised.args))
          /\ msgs' = msgs
          /\ pipes' = pipes
          /\ crashed' = crashed]_vars

C11_Witness ==
  /\ Len(raised) = 2
  /\ raised[1].sig = "error"
  /\ raised[2].sig = "connecting"
  /\ surface = <<Event("error", <<<<"TransportError", 1>>, Server>>),
                 Event("connecting", <<>>)>>
  /\ Len(pipes) > 0

\* C12: when the subscribe callback is given an error, exactly one error
\* event carrying that error is published; no message is delivered, no
\* decode pipeline is built or changed, the subscriptions and the channel are
\* as they were, and no exception leaves the callback.
C12_SubscribeError ==
  [][(Raises /\ Raised.sig = "subscribe") =>
       /\ surface' = Append(surface, Event("error", Raised.args))
       /\ Len(Raised.args) = 1
       /\ msgs' = msgs
       /\ pipes' = pipes
       /\ subs' = subs
       /\ channel' = channel
       /\ crashed' = FALSE]_vars

C12_Witness ==
  /\ Len(raised) > 0
  /\ raised[Len(raised)].sig = "subscribe"
  /\ surface[Len(surface)] = Event("error", <<<<"SubscribeError", Len(raised)>>>>)
  /\ Len(msgs) > 0
  /\ ~crashed

\* C13: every error in the handling of a message is published as an error or
\* a messageErr event: a decode error raised with chunks in the buffer, and
\* every failure of the XML conversion and key transform, of the
\* classification and of the domain construction; only a decode error
\* raised with an empty buffer is published as nothing.
Reported(p) == \E i \in 1..Len(pipes[p].out) : pipes[p].out[i].name \in {"error", "messageErr"}

C13_NoErrorDropped ==
  \A p \in Pipes :
    /\ (pipes[p].st = "errored" /\ Len(pipes[p].buffer) > 0) => Reported(p)
    /\ (EndRan(p) /\ PostDecodeFailed(p)) => Reported(p)

\* C14: a pipeline publishes a TypedEvent only in the step of its end
\* callback, and then the event is the one built from the text of all the
\* chunks of its buffer, which no later step changes; a pipeline whose
\* message lost its transport before the end of the stream has published
\* no TypedEvent.
TypedNames == {"trainStatus", "schedule", "association", "trainOrder",
               "stationMessage", "unhandledMessage"}

Typed(p) == \E i \in 1..Len(pipes[p].out) : pipes[p].out[i].name \in TypedNames

C15_ExclusiveBuffers ==
  [][/\ \A p \in Pipes :
          /\ pipes'[p].msg = pipes[p].msg
          /\ pipes'[p].buffer # pipes[p].buffer =>
               \A q \in Pipes \ {p} : pipes'[q] = pipes[q]
          /\ (pipes[p].st = "open" /\ pipes'[p].st = "ended") =>
               /\ pipes'[p].xml = Join(pipes[p].buffer)
               /\ pipes'[p].json = replaceKeys(toJson(Join(pipes[p].buffer)))
               /\ \E listener \in {"returns", "throws"} :
                    pipes'[p].out = Published(TypeOf(p), pipes'[p].json, listener)
     /\ Len(pipes') > Len(pipes) =>
          /\ Len(pipes') = Len(pipes) + 1
          /\ pipes'[Len(pipes')].buffer = <<>>
          /\ pipes'[Len(pipes')].out = <<>>]_vars

C15_Witness ==
  \E p, q \in Pipes :
    /\ pipes[p].msg # pipes[q].msg
    /\ TypeOf(p) = "SCHEDULE"
    /\ TypeOf(q) = "TRAINSTATUS,"
    /\ q < p
    /\ pipes[p].buffer = << <<XmlOpen>> >>
    /\ pipes[p].st = "ended"
    /\ pipes[p].out = <<Event("unhandledMessage", <<replaceKeys(OpenJSON)>>)>>
    /\ pipes[q].st = "open"
    /\ pipes[q].buffer = <<>>

\* C16: a call of getMessage leaves the Darwin instance (its channel, its
\* subscriptions and listeners, everything it has published) and the record
\* and type it was given as they were, and returns what the type and the
\* record give.
C16_ClassifyPure ==
  [][(fn.pc = "transformed" /\ fn'.pc = "classified") =>
       /\ channel' = channel
       /\ subs' = subs
       /\ msgs' = msgs
       /\ pipes' = pipes
       /\ raised' = raised
       /\ surface' = surface
       /\ crashed' = crashed
       /\ fn'.type = fn.type
       /\ fn'.raw = fn.raw
       /\ fn'.json = fn.json
       /\ fn'.result = getMessage(fn.type, fn.json)]_vars

C16_Witness ==
  /\ fn.pc = "classified"
  /\ fn.type = "STATIONMESSAGE,"
  /\ fn.json = AllJSON
  /\ fn.result[2] = "stationMessage"

\* C17: a data callback puts its chunk at the end of the buffer of its
\* pipeline, and the text the end callback hands to the XML conversion is
\* the chunks of the buffer, each once, in the order they were put there.
RECURSIVE Concat(_)
Concat(chunks) == IF Len(chunks) = 0 THEN <<>> ELSE Head(chunks) \o Concat(Tail(chunks))

C17_ChunkOrder ==
  [][\A p \in Pipes :
       /\ pipes'[p].buffer # pipes[p].buffer =>
            \E data \in Chunks : pipes'[p].buffer = pipes[p].buffer \o <<data>>
       /\ (pipes[p].st = "open" /\ pipes'[p].st \in {"ended", "threw"}) =>
            /\ pipes'[p].buffer = pipes[p].buffer
            /\ pipes'[p].xml = Concat(pipes[p].buffer)]_vars

C17_Witness ==
  \E p \in Pipes :
    /\ pipes[p].st = "ended"
    /\ pipes[p].buffer = << <<XmlOpen>>, <<XmlBody>> >>
    /\ pipes[p].xml = <<XmlOpen, XmlBody>>

\* C18: the instance has at most one channel with listeners and a
\* subscription, and only the channel connect made last hands signals to
\* the listeners.
C18_SingleChannel ==
  [][/\ Cardinality(subs) <= 1
     /\ Raises => Raised.ch = channel]_vars

\* C19: no message has more than one decode pipeline, however often it
\* signals readable.
C19_OnePipelinePerMessage ==
  \A m \in 1..Len(msgs) : Cardinality(PipesOf(m)) <= 1

====
